---------------------------- MODULE Spec2Model ----------------------------
(***************************************************************************)
(* Model of src/index.js: the POST /upload route of the Excel-to-MongoDB   *)
(* importer.  multer stores the uploaded file under                        *)
(* uploads/<Date.now()>-<originalname>, the route handler reads the first  *)
(* sheet with xlsx, hands the rows to DataModel.insertMany (Mongoose       *)
(* validation of every row, then MongoDB's ordered bulk insert under the   *)
(* unique index on email), deletes the file and answers.                   *)
(*                                                                         *)
(* Strings are sequences of one-character strings, so that casting,        *)
(* trimming and lower-casing are computed and not assumed.                 *)
(***************************************************************************)
EXTENDS Integers, Sequences, FiniteSets, TLC

(* ------------------------------ bounds -------------------------------- *)
NumRequests == 2      \* upload requests the server receives
MaxRows     == 2      \* data rows of an uploaded sheet
MaxTime     == 1      \* readings of the millisecond clock: 0..MaxTime
NumNames    == 1      \* distinct original file names clients use

Requests == 1..NumRequests
Times    == 0..MaxTime
Names    == 1..NumNames
Paths    == Times \X Names

(* ------------------------- cells, rows, sheets ------------------------ *)
\* A cell value, and a field of a document: a number, a string, nothing
\* (sheet_to_json omits the key of an empty cell), or a failed cast.  A
\* number is n + f/10, with f in 0..9 and f = 0 when n < 0.
NoCell    == [t |-> "none", s |-> <<>>, n |-> 0, f |-> 0]
CastError == [t |-> "castError", s |-> <<>>, n |-> 0, f |-> 0]

Num(k) == [t |-> "num", s |-> <<>>, n |-> k, f |-> 0]

Dec(k, tenths) == [t |-> "num", s |-> <<>>, n |-> k, f |-> tenths]

Str(chars) == [t |-> "str", s |-> chars, n |-> 0, f |-> 0]

Digits == <<"0", "1", "2", "3", "4", "5", "6", "7", "8", "9">>

IsDigit(c) == \E i \in 1..10 : Digits[i] = c

DigitVal(c) == (CHOOSE i \in 1..10 : Digits[i] = c) - 1

RECURSIVE NumberOf(_)
\* JavaScript Number(s) of a string of decimal digits
NumberOf(s) ==
    IF s = <<>> THEN 0
    ELSE 10 * NumberOf(SubSeq(s, 1, Len(s) - 1)) + DigitVal(s[Len(s)])

\* Mongoose's cast of a cell to the schema type Number (age, lines 47-50):
\* a number is kept, a string of digits is converted, a string with any
\* other character (the strings of this model have no sign, point or
\* blank) is a CastError; an absent cell stays absent.
CastNumber(v) ==
    IF v.t = "num" THEN v
    ELSE IF v.t = "str" THEN
        IF v.s # <<>> /\ \A i \in 1..Len(v.s) : IsDigit(v.s[i])
        THEN Num(NumberOf(v.s))
        ELSE CastError
    ELSE v

RECURSIVE DigitsOf(_)
\* JavaScript String(k) of a natural number
DigitsOf(k) ==
    IF k < 10 THEN <<Digits[k + 1]>>
    ELSE Append(DigitsOf(k \div 10), Digits[(k % 10) + 1])

\* JavaScript String(x) of a number cell
NumberText(v) ==
    IF v.n < 0 THEN <<"-">> \o DigitsOf(0 - v.n)
    ELSE IF v.f = 0 THEN DigitsOf(v.n)
    ELSE DigitsOf(v.n) \o <<".", Digits[v.f + 1]>>

\* Mongoose's cast of a cell to the schema type String (name, email): a
\* string is stored character for character, a number as its decimal text.
CastString(v) ==
    IF v.t = "num" THEN Str(NumberText(v)) ELSE v

\* The rows uploaded sheets are made of: three well-formed rows (two of the
\* e-mails differ only by case and surrounding whitespace, one age is a
\* numeric string) and one row for each way of being malformed.
RowA       == [name |-> Str(<<"n">>), age |-> Num(30),
               email |-> Str(<<"a">>)]
RowAVar    == [name |-> Str(<<"n">>), age |-> Num(30),
               email |-> Str(<<" ", "A">>)]
RowB       == [name |-> Num(7), age |-> Str(<<"2", "5">>),
               email |-> Str(<<"b">>)]
RowNoName  == [name |-> NoCell, age |-> Num(30),
               email |-> Str(<<"b">>)]
RowNoAge   == [name |-> Str(<<"n">>), age |-> NoCell,
               email |-> Str(<<"b">>)]
RowBadAge  == [name |-> Str(<<"n">>), age |-> Str(<<"x">>),
               email |-> Str(<<"b">>)]
RowNoEmail == [name |-> Str(<<"n">>), age |-> Num(30),
               email |-> NoCell]

Rows == {RowA, RowAVar, RowB, RowNoName, RowNoAge, RowBadAge, RowNoEmail}

Sheets == UNION {[1..n -> Rows] : n \in 0..MaxRows}

\* A file of the uploads/ directory: none at that path, bytes that
\* xlsx.readFile cannot parse (it throws), or a workbook whose first sheet
\* holds the given rows.
NoFile  == [kind |-> "none", rows |-> <<>>]
Corrupt == [kind |-> "corrupt", rows |-> <<>>]

Workbook(rows) == [kind |-> "xlsx", rows |-> rows]

\* what the bytes of an uploaded file can be
Contents == {Workbook(s) : s \in Sheets} \cup {Corrupt}

\* req.file.path before multer set it
NoPath == <<>>

(* ------------------------- dataSchema (42-56) ------------------------- *)
\* required: true of a String path: present and not the empty string
RequiredString(v) == v.t = "str" /\ v.s # <<>>

\* required: true of a Number path, after the cast
RequiredNumber(v) == v.t = "num"

\* a row passes Mongoose's validation of the Data schema
RowValid(row) ==
    /\ RequiredString(CastString(row.name))
    /\ RequiredNumber(CastNumber(row.age))
    /\ RequiredString(CastString(row.email))

\* mutant: only the first document is validated before the insert starts
FirstRowValid(rows) == rows = <<>> \/ RowValid(rows[1])

\* insertMany validates every document before it sends any to the store
AllRowsValid(rows) == \A i \in 1..Len(rows) : RowValid(rows[i])

\* the document Mongoose builds from a row
Doc(row) ==
    [name  |-> CastString(row.name),
     age   |-> CastNumber(row.age),
     email |-> CastString(row.email)]

\* mutant: the last row of the sheet is not handed to the store
DocsButLast(rows) ==
    [i \in 1..(Len(rows) - 1) |-> Doc(rows[i])]

\* insertMany(jsonData): one document for each row, in the rows' order
DocsToInsert(rows) == [i \in 1..Len(rows) |-> Doc(rows[i])]

\* the row whose validation error insertMany rejects with: the documents
\* are validated in array order and the first error ends the call
FirstInvalid(rows) ==
    CHOOSE i \in 1..Len(rows) :
        ~RowValid(rows[i]) /\ \A j \in 1..(i - 1) : RowValid(rows[j])

(* ------------------------------- state -------------------------------- *)
VARIABLES
    now,        \* last reading of Date.now()
    files,      \* the uploads/ directory: path -> content or NoFile
    store,      \* the Data collection, in insertion order
    pc,         \* where each request is
    filePath,   \* req.file.path of each request
    jsonData,   \* the rows the handler decoded
    idx,        \* next row of the ordered bulk insert
    status,     \* HTTP status sent
    body,       \* JSON body sent
    committed,  \* history: documents this request's insertMany stored
    seen,       \* history: e-mails in the store when the request arrived
    unlinks,    \* history: fs.unlinkSync calls of this request
    calls,      \* the document arrays this request sent to the store
    responses,  \* history: res.json calls of this request
    failedRow,  \* history: the row the reported error is about, or 0
    probe       \* a single row put to the schema's validation

vars == <<now, files, store, pc, filePath, jsonData, idx, status, body,
          committed, seen, unlinks, calls, responses, failedRow, probe>>

\* the handler's jsonData: unset until sheet_to_json returned (line 85)
NotRead == [read |-> FALSE, rows |-> <<>>]

Decoded(rows) == [read |-> TRUE, rows |-> rows]

\* a JSON body: the keys it has and their values (a key it does not have
\* reads "" or 0); NoBody as long as nothing was sent
NoBody == [keys |-> {}, message |-> "", error |-> "", insertedCount |-> 0]

\* no row is being probed
NoProbe == [row |-> RowA, verdict |-> "none"]

Emails(docs) == {docs[i].email : i \in 1..Len(docs)}

InitRoute ==
    /\ now = 0
    /\ files = [p \in Paths |-> NoFile]
    /\ store = <<>>
    /\ pc = [r \in Requests |-> "idle"]
    /\ filePath = [r \in Requests |-> NoPath]
    /\ jsonData = [r \in Requests |-> NotRead]
    /\ idx = [r \in Requests |-> 0]
    /\ status = [r \in Requests |-> 0]
    /\ body = [r \in Requests |-> NoBody]
    /\ committed = [r \in Requests |-> <<>>]
    /\ seen = [r \in Requests |-> {}]
    /\ unlinks = [r \in Requests |-> 0]
    /\ calls = [r \in Requests |-> <<>>]
    /\ responses = [r \in Requests |-> 0]
    /\ failedRow = [r \in Requests |-> 0]

Init == InitRoute /\ probe = NoProbe

(* ------------------------------ responses ----------------------------- *)
StatusOk      == 200
StatusNoFile  == 400
StatusError   == 500

\* lines 97-100
OkBody(n) ==
    [keys |-> {"message", "insertedCount"},
     message |-> "Data successfully transferred to MongoDB.",
     error |-> "", insertedCount |-> n]

\* line 68
NoFileBody ==
    [keys |-> {"message"}, message |-> "No file uploaded.",
     error |-> "", insertedCount |-> 0]

\* lines 105-108
ErrorBody(err) ==
    [keys |-> {"message", "error"},
     message |-> "An error occurred during the data transfer.",
     error |-> err, insertedCount |-> 0]

\* mutant: the catch block logs the error and sends nothing
CatchLogOnly(r, err) ==
    /\ pc' = [pc EXCEPT ![r] = "done"]
    /\ UNCHANGED <<status, body, responses>>

\* the catch block (102-109): answer 500 with the error's message
Catch(r, err) ==
    /\ status' = [status EXCEPT ![r] = StatusError]
    /\ body' = [body EXCEPT ![r] = ErrorBody(err)]
    /\ responses' = [responses EXCEPT ![r] = @ + 1]
    /\ pc' = [pc EXCEPT ![r] = "done"]

(* ------------------------------ actions ------------------------------- *)
\* multer's diskStorage writes the uploaded bytes to
\* uploads/<Date.now()>-<originalname> before the handler runs.  A write to
\* a path another request's file still occupies overwrites it; the two
\* write streams may also leave a mix of both files, which is unparseable.
StoreFile(r) ==
    /\ pc[r] = "idle"
    /\ \E t \in Times, n \in Names, c \in Contents :
        /\ t >= now
        /\ now' = t
        /\ filePath' = [filePath EXCEPT ![r] = <<t, n>>]
        /\ \E w \in (IF files[<<t, n>>] = NoFile THEN {c} ELSE {c, Corrupt}) :
              files' = [files EXCEPT ![<<t, n>>] = w]
    /\ seen' = [seen EXCEPT ![r] = Emails(store)]
    /\ pc' = [pc EXCEPT ![r] = "stored"]
    /\ UNCHANGED <<store, jsonData, idx, status, body, committed, unlinks,
                   calls, responses, failedRow, probe>>

\* mutant: the check of req.file is missing, so that reading
\* req.file.path throws and the catch block answers
NoFileUnchecked(r) ==
    /\ pc[r] = "idle"
    /\ Catch(r, "TypeError")
    /\ UNCHANGED <<now, files, store, filePath, jsonData, idx, committed,
                   seen, unlinks, calls, failedRow, probe>>

\* a request without the excelFile field: req.file is undefined (67-69)
NoFileUpload(r) ==
    /\ pc[r] = "idle"
    /\ status' = [status EXCEPT ![r] = StatusNoFile]
    /\ body' = [body EXCEPT ![r] = NoFileBody]
    /\ responses' = [responses EXCEPT ![r] = @ + 1]
    /\ pc' = [pc EXCEPT ![r] = "done"]
    /\ UNCHANGED <<now, files, store, filePath, jsonData, idx, committed,
                   seen, unlinks, calls, failedRow, probe>>

\* lines 71-90 up to the await: read the workbook, take the first sheet's
\* rows, and start insertMany, which validates every row before anything
\* is sent to the store.
Handler(r) ==
    /\ pc[r] = "stored"
    /\ LET c == files[filePath[r]] IN
        IF c = NoFile THEN
            /\ Catch(r, "ENOENT")
            /\ UNCHANGED <<jsonData, idx, calls, failedRow>>
        ELSE IF c = Corrupt THEN
            /\ Catch(r, "DecodeError")
            /\ UNCHANGED <<jsonData, idx, calls, failedRow>>
        ELSE
            /\ jsonData' = [jsonData EXCEPT ![r] = Decoded(c.rows)]
            /\ IF ~AllRowsValid(c.rows) THEN
                    /\ Catch(r, "ValidationError")
                    /\ failedRow' = [failedRow EXCEPT
                                        ![r] = FirstInvalid(c.rows)]
                    /\ UNCHANGED <<idx, calls>>
               ELSE LET docs == DocsToInsert(c.rows) IN
                    \* insertMany of no document resolves without a
                    \* call to the store
                    /\ calls' = [calls EXCEPT ![r] =
                                    IF docs = <<>> THEN @
                                    ELSE Append(@, docs)]
                    /\ pc' = [pc EXCEPT ![r] =
                                IF docs = <<>> THEN "inserted"
                                ELSE "inserting"]
                    /\ idx' = [idx EXCEPT ![r] = 1]
                    /\ UNCHANGED <<status, body, responses, failedRow>>
    /\ UNCHANGED <<now, files, store, filePath, committed, seen, unlinks,
                   probe>>

\* mutant: the schema declares no unique index
DuplicateKeyNever(doc) == FALSE

\* mutant: only the document stored last is compared
DuplicateKeyLast(doc) ==
    store # <<>> /\ store[Len(store)].email = doc.email

\* the unique index on email (line 54): a document is refused when the
\* collection holds a document with the same e-mail string
DuplicateKey(doc) == \E i \in 1..Len(store) : store[i].email = doc.email

\* one document of MongoDB's ordered bulk insert (line 90): the documents
\* are written one after the other and the first duplicate key ends the
\* operation, leaving the earlier ones stored; the rejected promise lands
\* in the catch block.
InsertOne(r) ==
    /\ pc[r] = "inserting"
    /\ LET docs == calls[r][Len(calls[r])]
           doc == docs[idx[r]] IN
        IF DuplicateKey(doc) THEN
            /\ Catch(r, "E11000")
            /\ failedRow' = [failedRow EXCEPT ![r] = idx[r]]
            /\ UNCHANGED <<store, committed, idx>>
        ELSE
            /\ store' = Append(store, doc)
            /\ committed' = [committed EXCEPT ![r] = Append(@, doc)]
            /\ idx' = [idx EXCEPT ![r] = @ + 1]
            /\ pc' = [pc EXCEPT ![r] =
                        IF idx[r] = Len(docs) THEN "inserted"
                        ELSE "inserting"]
            /\ UNCHANGED <<status, body, responses, failedRow>>
    /\ UNCHANGED <<now, files, filePath, jsonData, seen, unlinks, calls,
                   probe>>

\* result.length (line 99): insertMany resolves with the documents it
\* handed to the store
ResultLength(r) ==
    IF calls[r] = <<>> THEN 0 ELSE Len(calls[r][Len(calls[r])])

\* mutant: insertMany is not awaited, so that the file is deleted and the
\* answer sent while the bulk insert may still be running
AfterInsertNoAwait(r) ==
    /\ pc[r] \in {"inserting", "inserted"}
    /\ unlinks' = [unlinks EXCEPT ![r] = @ + 1]
    /\ IF files[filePath[r]] = NoFile THEN
            /\ Catch(r, "ENOENT")
            /\ UNCHANGED files
       ELSE
            /\ files' = [files EXCEPT ![filePath[r]] = NoFile]
            /\ status' = [status EXCEPT ![r] = StatusOk]
            /\ body' = [body EXCEPT ![r] = OkBody(ResultLength(r))]
            /\ responses' = [responses EXCEPT ![r] = @ + 1]
            /\ pc' = [pc EXCEPT ![r] = "done"]
    /\ UNCHANGED <<now, store, filePath, jsonData, idx, committed, seen,
                   calls, failedRow, probe>>

\* lines 94-100, after insertMany resolved: delete the file, answer 200.
\* fs.unlinkSync throws when the file is gone, inside the try block.
AfterInsert(r) ==
    /\ pc[r] = "inserted"
    /\ unlinks' = [unlinks EXCEPT ![r] = @ + 1]
    /\ IF files[filePath[r]] = NoFile THEN
            /\ Catch(r, "ENOENT")
            /\ UNCHANGED files
       ELSE
            /\ files' = [files EXCEPT ![filePath[r]] = NoFile]
            /\ status' = [status EXCEPT ![r] = StatusOk]
            /\ body' = [body EXCEPT ![r] = OkBody(ResultLength(r))]
            /\ responses' = [responses EXCEPT ![r] = @ + 1]
            /\ pc' = [pc EXCEPT ![r] = "done"]
    /\ UNCHANGED <<now, store, filePath, jsonData, idx, committed, seen,
                   calls, failedRow, probe>>

Next ==
    \E r \in Requests :
        \/ StoreFile(r)
        \/ NoFileUpload(r)
        \/ Handler(r)
        \/ InsertOne(r)
        \/ AfterInsert(r)

Spec == Init /\ [][Next]_vars

(* ====================== properties of the route ====================== *)
Done(r) == pc[r] = "done"

\* the request supplied a file: multer set req.file
HadFile(r) == filePath[r] # NoPath

\* the request decoded a sheet whose rows all passed validation, so that
\* its rows went to the store
Submitted(r) == jsonData[r].read /\ AllRowsValid(jsonData[r].rows)

RowEmails(r) ==
    {CastString(jsonData[r].rows[i].email) : i \in 1..Len(jsonData[r].rows)}

\* the documents of the whole decoded batch, in sheet order
BatchDocs(r) == [i \in 1..Len(jsonData[r].rows) |-> Doc(jsonData[r].rows[i])]

\* e-mails the store holds that this request did not put there
ForeignEmails(r) == Emails(store) \ Emails(committed[r])

(* ---- normalisation of an e-mail: trim, then lower-case --------------- *)
UpperCase == <<"A", "B", "C", "D", "E", "F", "G", "H", "I", "J", "K", "L",
               "M", "N", "O", "P", "Q", "R", "S", "T", "U", "V", "W", "X",
               "Y", "Z">>
LowerCase == <<"a", "b", "c", "d", "e", "f", "g", "h", "i", "j", "k", "l",
               "m", "n", "o", "p", "q", "r", "s", "t", "u", "v", "w", "x",
               "y", "z">>

ToLowerChar(c) ==
    IF \E i \in 1..26 : UpperCase[i] = c
    THEN LowerCase[CHOOSE i \in 1..26 : UpperCase[i] = c]
    ELSE c

ToLower(s) == [i \in 1..Len(s) |-> ToLowerChar(s[i])]

RECURSIVE TrimLeft(_)
TrimLeft(s) ==
    IF s # <<>> /\ s[1] = " " THEN TrimLeft(Tail(s)) ELSE s

RECURSIVE TrimRight(_)
TrimRight(s) ==
    IF s # <<>> /\ s[Len(s)] = " "
    THEN TrimRight(SubSeq(s, 1, Len(s) - 1)) ELSE s

Trim(s) == TrimRight(TrimLeft(s))

\* a string cell trimmed and lower-cased; any other cell as it is
Normalize(v) == IF v.t = "str" THEN Str(ToLower(Trim(v.s))) ELSE v

\* a row as the claims call it malformed: name, age or email missing, or
\* an age that is not a number
Malformed(row) ==
    \/ row.name.t = "none"
    \/ row.age.t = "none"
    \/ row.email.t = "none"
    \/ /\ row.age.t = "str"
       /\ \E i \in 1..Len(row.age.s) : ~IsDigit(row.age.s[i])

(* ---- C1 --------------------------------------------------------------- *)
\* C1: once a request that supplied a file has sent its response, its
\* temporary file no longer exists, whatever the outcome was.
C1_TempFileGoneAfterResponse ==
    \A r \in Requests :
        (Done(r) /\ HadFile(r)) => files[filePath[r]] = NoFile

(* ---- C2 --------------------------------------------------------------- *)
\* C2: the batch is all-or-nothing: a request that ended with an error
\* response committed none of its documents to the store.
C2_ErrorCommitsNothing ==
    \A r \in Requests :
        (Done(r) /\ status[r] = StatusError) => committed[r] = <<>>

(* ---- C3 --------------------------------------------------------------- *)
\* no two rows of the decoded batch have the same normalised e-mail, and
\* none is held by the store from another request
NoDuplicateEmail(r) ==
    /\ \A i, j \in 1..Len(jsonData[r].rows) :
          i # j => Normalize(CastString(jsonData[r].rows[i].email))
                   # Normalize(CastString(jsonData[r].rows[j].email))
    /\ \A e \in RowEmails(r), f \in ForeignEmails(r) :
          Normalize(e) # Normalize(f)

\* C3: a sheet of N >= 1 well-formed rows without duplicate e-mail is answered
\* 200 with insertedCount = N, and the store holds exactly those N new
\* documents.
C3_ValidSheetFullyInserted ==
    \A r \in Requests :
        (Done(r) /\ Submitted(r) /\ jsonData[r].rows # <<>>
           /\ NoDuplicateEmail(r)) =>
            /\ status[r] = StatusOk
            /\ body[r].insertedCount = Len(jsonData[r].rows)
            /\ committed[r] = BatchDocs(r)

(* ---- C4 --------------------------------------------------------------- *)
\* C4: a sheet with a malformed row, wherever the row is, is rejected with
\* an error response and none of its rows is stored.
C4_MalformedRowRejectsBatch ==
    \A r \in Requests :
        (jsonData[r].read
           /\ \E i \in 1..Len(jsonData[r].rows) :
                 Malformed(jsonData[r].rows[i])) =>
            /\ committed[r] = <<>>
            /\ pc[r] = "done"
            /\ status[r] = StatusError
            /\ "error" \in body[r].keys

\* a rejected two-row sheet whose malformed row is the last one, while the
\* store already holds documents of another request
C4_Witness ==
    \E r \in Requests :
        /\ Done(r) /\ jsonData[r].read
        /\ Len(jsonData[r].rows) = 2
        /\ ~Malformed(jsonData[r].rows[1])
        /\ Malformed(jsonData[r].rows[2])
        /\ status[r] = StatusError
        /\ store # <<>>

(* ---- C5 --------------------------------------------------------------- *)
\* C5: a sheet holding an e-mail that was in the store when the request
\* arrived is rejected with a duplicate-key error and adds no document.
C5_DuplicateAgainstStoreAddsNothing ==
    \A r \in Requests :
        (Done(r) /\ Submitted(r) /\ RowEmails(r) \cap seen[r] # {}) =>
            /\ status[r] = StatusError
            /\ body[r].error = "E11000"
            /\ committed[r] = <<>>

(* ---- C6 --------------------------------------------------------------- *)
\* two rows of the decoded batch have e-mails that differ only by case or
\* surrounding whitespace: different strings, equal once trimmed and
\* lower-cased (rows with the very same string are the case of C2 and C5)
NormalizedDuplicate(r) ==
    \E i, j \in 1..Len(jsonData[r].rows) :
        /\ i # j
        /\ jsonData[r].rows[i].email # jsonData[r].rows[j].email
        /\ Normalize(CastString(jsonData[r].rows[i].email))
           = Normalize(CastString(jsonData[r].rows[j].email))

\* C6: a batch with two rows whose e-mails are equal after trimming and
\* lower-casing is rejected as a duplicate and nothing of it is stored;
\* stated for the rows the store's own comparison does not catch.
C6_NormalizedDuplicateRejected ==
    \A r \in Requests :
        (Done(r) /\ Submitted(r) /\ NormalizedDuplicate(r)) =>
            /\ status[r] = StatusError
            /\ body[r].error = "E11000"
            /\ committed[r] = <<>>

(* ---- C7 --------------------------------------------------------------- *)
\* C7: a request that arrives without a file is answered 400 with a
\* message at once: nothing is decoded, nothing is inserted, no file is
\* deleted and the store and the upload directory stay as they were.
C7_NoFileAnswered400 ==
    [][\A r \in Requests :
          (pc[r] = "idle" /\ pc'[r] # "idle" /\ filePath'[r] = NoPath) =>
              /\ pc'[r] = "done"
              /\ status'[r] = StatusNoFile
              /\ body'[r].keys = {"message"}
              /\ body'[r].message # ""
              /\ ~jsonData'[r].read
              /\ committed'[r] = <<>>
              /\ unlinks'[r] = 0
              /\ store' = store
              /\ files' = files]_vars

\* a request without a file was answered while the store held documents
\* and another request's file was in the upload directory
C7_Witness ==
    \E r \in Requests :
        /\ Done(r) /\ ~HadFile(r) /\ status[r] = StatusNoFile
        /\ store # <<>>
        /\ \E p \in Paths : files[p] # NoFile

(* ---- C8 --------------------------------------------------------------- *)
\* the requests whose insertMany stored a document with e-mail e
Persisters(e) == {r \in Requests : e \in Emails(committed[r])}

\* the request has a step to take: it is not stuck short of its response
CanProceed(r) == ENABLED (Handler(r) \/ InsertOne(r) \/ AfterInsert(r))

\* C8: of the uploads that submit a row with the same e-mail, under every
\* interleaving at most one stores it; every other one ends with a
\* duplicate-key error response; and no request is left without a way to
\* its response.
C8_RaceOnEmail ==
    /\ \A r \in Requests : \A e \in RowEmails(r) :
          Submitted(r) =>
            /\ Cardinality(Persisters(e)) <= 1
            /\ (Done(r) /\ r \notin Persisters(e)) =>
                  (status[r] = StatusError /\ body[r].error = "E11000")
    /\ \A r \in Requests :
          pc[r] \in {"stored", "inserting", "inserted"} => CanProceed(r)

\* two uploads in flight together, each with a row of an e-mail the store
\* did not hold when either arrived: one stored it, the other was answered
\* with the duplicate-key error
C8_Witness ==
    \E r1, r2 \in Requests : \E e \in RowEmails(r1) \cap RowEmails(r2) :
        /\ r1 # r2
        /\ Submitted(r1) /\ Submitted(r2)
        /\ e \notin seen[r1] \cup seen[r2]
        /\ e \in Emails(committed[r1])
        /\ Done(r2) /\ status[r2] = StatusError
        /\ body[r2].error = "E11000"
        /\ Done(r1)

(* ---- C9 --------------------------------------------------------------- *)
\* C9: no two documents of the Data collection have the same e-mail.
C9_UniqueEmail ==
    \A i, j \in 1..Len(store) : i # j => store[i].email # store[j].email

\* the collection holds documents of two requests and a third insert was
\* refused by the index
C9_Witness ==
    /\ \E r1, r2 \in Requests :
          r1 # r2 /\ committed[r1] # <<>> /\ committed[r2] # <<>>
    /\ \E r \in Requests : Done(r) /\ body[r].error = "E11000"
    /\ Len(store) >= 3

(* ---- C10 -------------------------------------------------------------- *)
\* every document of the decoded batch was stored by the request
WholeBatchPersisted(r) == jsonData[r].read /\ committed[r] = BatchDocs(r)

\* the request decoded a sheet without data rows
EmptyBatch(r) == jsonData[r].read /\ jsonData[r].rows = <<>>

\* C10: the outcome is all success or all failure: 200 with insertedCount
\* is sent exactly when the whole batch was stored, and otherwise the
\* answer is 500 with a message and the error's message and no
\* insertedCount.  Stated for the requests that decoded at least one row or
\* failed before decoding.
C10_SuccessIffWholeBatch ==
    \A r \in Requests :
        (Done(r) /\ HadFile(r) /\ ~EmptyBatch(r)) =>
            /\ (status[r] = StatusOk /\ "insertedCount" \in body[r].keys)
                 <=> WholeBatchPersisted(r)
            /\ status[r] # StatusOk =>
                  /\ status[r] = StatusError
                  /\ body[r].keys = {"message", "error"}
                  /\ body[r].error # ""

(* ---- C11 -------------------------------------------------------------- *)
\* C11: a request that supplied a file attempts exactly one deletion of it,
\* and a deletion that throws does not change the outcome: once the bulk
\* insert stored the whole batch, the answer is 200 with insertedCount.
\* Stated for the requests whose bulk insert succeeded on at least one row.
C11_DeletionFailureNotPropagated ==
    \A r \in Requests :
        (Done(r) /\ HadFile(r) /\ WholeBatchPersisted(r) /\ ~EmptyBatch(r)) =>
            /\ unlinks[r] = 1
            /\ status[r] = StatusOk
            /\ "insertedCount" \in body[r].keys

(* ---- C12 -------------------------------------------------------------- *)
\* the pipeline state of a request
Phase(r) ==
    CASE pc[r] = "idle"      -> "Idle"
      [] pc[r] = "stored"    -> "Received"
      [] pc[r] = "inserting" -> "Validated"
      [] pc[r] = "inserted"  -> "Persisted"
      [] pc[r] = "done" /\ status[r] = StatusOk -> "Cleaned"
      [] OTHER               -> "Failed"

\* Phase(r) after the step
PhaseNext(r) ==
    CASE pc'[r] = "idle"      -> "Idle"
      [] pc'[r] = "stored"    -> "Received"
      [] pc'[r] = "inserting" -> "Validated"
      [] pc'[r] = "inserted"  -> "Persisted"
      [] pc'[r] = "done" /\ status'[r] = StatusOk -> "Cleaned"
      [] OTHER                -> "Failed"

\* the moves the pipeline order allows; decoding and validation are one
\* uninterrupted stretch of the handler, so Received leads to Validated,
\* or on to Persisted when the sheet has no row to insert
PipelineOrder ==
    {<<"Idle", "Received">>, <<"Received", "Validated">>,
     <<"Received", "Persisted">>, <<"Validated", "Validated">>,
     <<"Validated", "Persisted">>, <<"Persisted", "Cleaned">>,
     <<"Received", "Failed">>, <<"Validated", "Failed">>,
     <<"Persisted", "Failed">>}

\* no row of the decoded batch is malformed
WellFormedBatch(r) ==
    /\ jsonData[r].read
    /\ \A i \in 1..Len(jsonData[r].rows) : ~Malformed(jsonData[r].rows[i])

\* C12: a request with a file moves through Idle, Received, Decoded,
\* Validated, Persisted, Cleaned in that order and leaves for Failed only
\* from Received..Persisted; the store is called only with a batch that was
\* decoded and validated in every row, the file is deleted only after the
\* bulk insert returned, and 200 is sent only after both.
C12_PipelineOrder ==
    /\ [](\A r \in Requests :
            /\ (calls[r] # <<>> \/ committed[r] # <<>>) => WellFormedBatch(r)
            /\ unlinks[r] > 0 => WholeBatchPersisted(r)
            /\ status[r] = StatusOk =>
                  (unlinks[r] = 1 /\ WholeBatchPersisted(r)))
    /\ [][\A r \in Requests :
            /\ (HadFile(r) \/ filePath'[r] # NoPath) =>
                  \/ <<pc[r], status[r]>> = <<pc'[r], status'[r]>>
                  \/ <<Phase(r), PhaseNext(r)>> \in PipelineOrder
            /\ unlinks'[r] # unlinks[r] => pc[r] = "inserted"
            /\ committed'[r] # committed[r] => pc[r] = "inserting"]_vars

\* a request went the whole way with a two-row sheet while another one
\* left for Failed after some of its rows were stored
C12_Witness ==
    \E r1, r2 \in Requests :
        /\ Phase(r1) = "Cleaned" /\ Len(committed[r1]) = 2
        /\ unlinks[r1] = 1
        /\ Phase(r2) = "Failed" /\ HadFile(r2) /\ committed[r2] # <<>>

(* ---- C13 -------------------------------------------------------------- *)
\* the request has a file and has not answered yet
InFlight(r) == pc[r] \in {"stored", "inserting", "inserted"}

\* C13: requests in flight at the same time have temporary files of their
\* own: no two of them have the same path.
C13_OwnTempFile ==
    \A r1, r2 \in Requests :
        (r1 # r2 /\ InFlight(r1) /\ InFlight(r2)) =>
            filePath[r1] # filePath[r2]

(* ---- C14 -------------------------------------------------------------- *)
\* The event loop runs the handler once multer stored the file; the file
\* read is synchronous, and the bulk insert is taken to settle: a request
\* with a step to take is not left waiting for ever.
FairSpec ==
    Spec /\ \A r \in Requests :
                WF_vars(Handler(r) \/ InsertOne(r) \/ AfterInsert(r))

\* C14: a request that started reaches its response, in Cleaned or Failed,
\* and sends exactly one response: never two, and none only as long as it
\* is under way.
C14_TerminatesWithOneResponse ==
    /\ [](\A r \in Requests :
            /\ responses[r] <= 1
            /\ Done(r) <=> responses[r] = 1
            /\ Done(r) => Phase(r) \in {"Cleaned", "Failed"})
    /\ \A r \in Requests : (pc[r] # "idle") ~> Done(r)

\* both requests have answered, one with 200 and one with 500
C14_Witness ==
    \E r1, r2 \in Requests :
        /\ Done(r1) /\ status[r1] = StatusOk /\ responses[r1] = 1
        /\ Done(r2) /\ status[r2] = StatusError /\ responses[r2] = 1
        /\ committed[r1] # <<>>

(* ---- C15 -------------------------------------------------------------- *)
\* row i of the sheet fails: it is malformed, or its e-mail is the e-mail
\* string of an earlier row
RowFails(rows, i) ==
    \/ Malformed(rows[i])
    \/ \E j \in 1..(i - 1) : rows[j].email = rows[i].email

\* the first failing row in sheet order
FirstFailing(rows) ==
    CHOOSE i \in 1..Len(rows) :
        RowFails(rows, i) /\ \A j \in 1..(i - 1) : ~RowFails(rows, j)

\* C15: when rows of a batch are invalid or duplicate one another, the
\* failure reported is that of the first failing row in sheet order, and
\* the request fails without the store having been called.
C15_FailFastFirstRow ==
    \A r \in Requests :
        (Done(r) /\ jsonData[r].read
           /\ \E i \in 1..Len(jsonData[r].rows) :
                 RowFails(jsonData[r].rows, i)) =>
            /\ status[r] = StatusError
            /\ failedRow[r] = FirstFailing(jsonData[r].rows)
            /\ calls[r] = <<>>
            /\ committed[r] = <<>>

(* ---- C16 -------------------------------------------------------------- *)
\* Single rows put to the schema: names, ages and e-mails that are absent,
\* empty, blank, text, and numbers below zero, whole and fractional.
ProbeNames == {NoCell, Str(<<>>), Str(<<" ">>), Str(<<"n">>), Num(7)}

ProbeAges ==
    {NoCell, Num(-1), Num(0), Num(30), Dec(2, 5), Str(<<"x">>),
     Str(<<"2", "5">>)}

ProbeEmails == {NoCell, Str(<<"a">>), Str(<<" ", "A">>)}

ProbeRows == [name : ProbeNames, age : ProbeAges, email : ProbeEmails]

InitRows ==
    /\ InitRoute
    /\ probe \in {[row |-> w, verdict |-> "pending"] : w \in ProbeRows}

\* insertMany of a sheet with this one row: the row is accepted when the
\* batch passes validation and goes to the store
ValidateRow ==
    /\ probe.verdict = "pending"
    /\ probe' = [probe EXCEPT !.verdict =
                    IF AllRowsValid(<<probe.row>>) THEN "accepted"
                    ELSE "rejected"]
    /\ UNCHANGED <<now, files, store, pc, filePath, jsonData, idx, status,
                   body, committed, seen, unlinks, calls, responses,
                   failedRow>>

SpecRows == InitRows /\ [][ValidateRow]_vars

\* the age, as the schema casts it, is a whole number not below zero
NonNegativeInteger(v) == v.t = "num" /\ v.n >= 0 /\ v.f = 0

\* the name, as the schema casts it, is a string with a character other
\* than blanks
NonBlankString(v) == v.t = "str" /\ Trim(v.s) # <<>>

\* C16: a row is accepted only if its age is coercible to a non-negative
\* integer and its name is not empty after trimming; a negative or
\* fractional age or a blank name rejects the batch.
C16_AcceptedRowWellTyped ==
    probe.verdict = "accepted" =>
        /\ NonNegativeInteger(CastNumber(probe.row.age))
        /\ NonBlankString(CastString(probe.row.name))

(* ---- C17 -------------------------------------------------------------- *)
\* s is an initial part of t
IsPrefix(s, t) ==
    Len(s) <= Len(t) /\ \A i \in 1..Len(s) : s[i] = t[i]

\* C17: a request calls the bulk insert at most once; the documents of that
\* call are the decoded rows of the sheet, one for each row, in sheet
\* order; what the request stored is an initial part of them, and a request
\* answered 200 stored them all.
C17_OneCallWholeBatch ==
    \A r \in Requests :
        /\ Len(calls[r]) <= 1
        /\ calls[r] # <<>> =>
                /\ Submitted(r)
                /\ Len(calls[r][1]) = Len(jsonData[r].rows)
                /\ \A i \in 1..Len(jsonData[r].rows) :
                        calls[r][1][i] = Doc(jsonData[r].rows[i])
        /\ jsonData[r].read => IsPrefix(committed[r], BatchDocs(r))
        /\ (Submitted(r) /\ ~EmptyBatch(r) /\ pc[r] # "stored") =>
                calls[r] # <<>>
        /\ (Done(r) /\ status[r] = StatusOk) => committed[r] = BatchDocs(r)

\* one request called the store once with a two-row batch and was answered
\* 200; another called it once and failed after its first row was stored
C17_Witness ==
    \E r1, r2 \in Requests :
        /\ Done(r1) /\ status[r1] = StatusOk
        /\ Len(calls[r1]) = 1 /\ Len(calls[r1][1]) = 2
        /\ Done(r2) /\ status[r2] = StatusError
        /\ Len(calls[r2]) = 1 /\ Len(committed[r2]) = 1
        /\ Len(jsonData[r2].rows) = 2

=============================================================================
